---- MODULE Spec2Model ----
(***************************************************************************)
(* A model of git-trivia's identity-resolution and aggregation engine:     *)
(*   person.rs     Person, PeopleDatabase, PeopleTracking, TeamTracking,   *)
(*                 CombinedTracking                                        *)
(*   ownership.rs  OwnershipStatistics, OwnershipScore, calculate          *)
(*   tree_walker.rs TreeWalker                                             *)
(*   configuration.rs Configuration::people_db, ConfigurationBuilder       *)
(*                                                                         *)
(* The specifications share the variables, each leaving the variables     *)
(* of the others at None:                                                  *)
(*   Spec          the PeopleDatabase under arbitrary add_person calls     *)
(*   SpecTracking  a CombinedTracking under track_person calls, then the   *)
(*                 OwnershipStatistics built from it                       *)
(*   SpecCalc      one pass of ownership::calculate over a tree            *)
(*   SpecWalker    a TreeWalker under next() calls                         *)
(*   SpecBuilder   a ConfigurationBuilder under add_author and             *)
(*                 set_latest_commit_sha calls, then into_configuration    *)
(***************************************************************************)
EXTENDS Integers, Sequences, FiniteSets, TLC

VARIABLES
    db,              \* PeopleDatabase { people: Vec<Person>, lookup: HashMap<Email, usize> }
    candidate,       \* the argument of the last add_person call
    lastResult,      \* what the last add_person call returned
    accepted,        \* history: the Persons whose add_person returned Ok, in order
    owners,          \* CombinedTracking { people_tracking, team_tracking }
    tracked,         \* history: per Person value, the lines handed to track_person
    lastTrack,       \* the arguments of the last track_person call
    phase,           \* position of the tracking / statistics life cycle
    stats,           \* Some(OwnershipStatistics) once from_tracking has run
    people_top,      \* the last value returned by people_toplist()
    teams_top,       \* the last value returned by teams_toplist()
    tree,            \* the commit's tree handed to calculate
    walker,          \* the TreeWalker calculate iterates
    blame,           \* the hunks of the current file still to be processed
    processed,       \* history: the hunks calculate has tracked, in order
    calc,            \* calculate's position and result
    yielded,         \* history: the entries the TreeWalker's next() has returned, in order
    next_result,     \* what the last next() call returned
    end_calls,       \* how many next() calls have returned None
    builder,         \* ConfigurationBuilder { generated_at_sha, seen_emails, people_by_name }
    from_config,     \* Some(Configuration) the builder was made from_existing, or Nothing
    records,         \* history: the signatures handed to add_author, in order
    checkpoint,      \* history: the commit sha last established, or None
    output           \* what into_configuration returned, Nothing before the call

vars == <<db, candidate, lastResult, accepted, owners, tracked, lastTrack, phase,
          stats, people_top, teams_top, tree, walker, blame, processed, calc,
          yielded, next_result, end_calls, builder, from_config, records, checkpoint, output>>

dbVars    == <<db, candidate, lastResult, accepted>>
trackVars == <<owners, tracked, lastTrack, phase, stats, people_top, teams_top>>
calcVars  == <<tree, walker, blame, processed, calc>>
walkVars  == <<yielded, next_result, end_calls>>
buildVars == <<builder, from_config, records, checkpoint, output>>

(***************************************************************************)
(* Values                                                                  *)
(***************************************************************************)

\* Option::None (an absent team name, an absent value)
None == "<None>"

\* The empty HashMap
EmptyMap == [x \in {} |-> 0]

\* Vec::pop / PathBuf::pop: the sequence without its last element
Pop(stack) == IF stack = <<>> THEN <<>> ELSE SubSeq(stack, 1, Len(stack) - 1)
Last(stack) == stack[Len(stack)]

\* Display names, aliases and team names the inputs are drawn from
Names  == {"Jane", "John"}
Emails == {"e1", "e2", "e3"}
Teams  == {"Team 1"}

\* struct Person { name, emails: HashSet<Email>, team_name: Option<String> }
Person(name, emails, team) == [name |-> name, emails |-> emails, team_name |-> team]

\* The Persons handed to add_person: every name with every set of aliases
\* (John in a team, Jane in none), and two more with the teams swapped
Candidates ==
    { Person(n, es, IF n = "John" THEN "Team 1" ELSE None) :
        n \in Names, es \in SUBSET Emails }
    \cup { Person("Jane", {"e3"}, "Team 1"), Person("John", {}, None) }

\* How many Persons a PeopleDatabase of the model holds at most
MaxPeople == 3

(***************************************************************************)
(* PeopleDatabase (person.rs)                                              *)
(***************************************************************************)

\* PeopleDatabase::new
NewDb == [people |-> <<>>, lookup |-> EmptyMap]

\* PeopleDatabase::has_email
has_email(d, email) == email \in DOMAIN d.lookup

\* Result of find_by_email
UnknownEmail(email) == [kind |-> "UnknownEmail", email |-> email]
Found(index, person) == [kind |-> "Ok", index |-> index, person |-> person]

\* PeopleDatabase::find_by_email: lookup.get(email).and_then(|i| people.get(*i))
\* The returned reference is the slot `index` (0-based) of the people Vec.
find_by_email(d, email) ==
    IF email \in DOMAIN d.lookup /\ d.lookup[email] < Len(d.people)
    THEN Found(d.lookup[email], d.people[d.lookup[email] + 1])
    ELSE UnknownEmail(email)

\* PeopleDatabase::insert_person with an index one too large
insert_person_off_by_one(d, person) ==
    [people |-> Append(d.people, person),
     lookup |-> [e \in DOMAIN d.lookup \cup person.emails |->
                    IF e \in person.emails THEN Len(d.people) + 1 ELSE d.lookup[e]]]

\* PeopleDatabase::insert_person that replaces the stored Persons
insert_person_replacing(d, person) ==
    [people |-> <<person>>,
     lookup |-> [e \in DOMAIN d.lookup \cup person.emails |->
                    IF e \in person.emails THEN 0 ELSE d.lookup[e]]]

\* PeopleDatabase::insert_person
insert_person(d, person) ==
    LET index == Len(d.people)
    IN  [people |-> Append(d.people, person),
         lookup |-> [e \in DOMAIN d.lookup \cup person.emails |->
                        IF e \in person.emails THEN index ELSE d.lookup[e]]]

\* Results of add_person
Ok == [kind |-> "Ok"]
ConflictingEmail(existing, new, email) ==
    [kind |-> "ConflictingEmail", existing |-> existing, new |-> new, email |-> email]
Panic == [kind |-> "Panic"]

\* The emails of `person` the conflict scan can stop at
conflict_emails(d, person) == { e \in person.emails : has_email(d, e) }

\* add_person without the conflict check
add_person_unchecked(d, person) ==
    { [db |-> insert_person(d, person), result |-> Ok] }

\* add_person that indexes the candidate's free emails before it fails
add_person_partial(d, person) ==
    IF conflict_emails(d, person) = {}
    THEN { [db |-> insert_person(d, person), result |-> Ok] }
    ELSE { [db |-> [people |-> d.people,
                    lookup |-> [x \in DOMAIN d.lookup \cup person.emails |->
                                   IF x \in DOMAIN d.lookup THEN d.lookup[x]
                                   ELSE Len(d.people)]],
            result |-> ConflictingEmail(find_by_email(d, e).person.name, person.name, e)]
           : e \in conflict_emails(d, person) }

\* PeopleDatabase::add_person: the outcomes [db, result] of one call.  The
\* conflict is the first indexed email in the iteration order of the
\* candidate's HashSet, which is any one of the indexed emails.
add_person(d, person) ==
    IF conflict_emails(d, person) = {}
    THEN { [db |-> insert_person(d, person), result |-> Ok] }
    ELSE { [db |-> d,
            result |-> IF find_by_email(d, e).kind = "Ok"
                       THEN ConflictingEmail(find_by_email(d, e).person.name,
                                             person.name, e)
                       ELSE Panic]
           : e \in conflict_emails(d, person) }

(***************************************************************************)
(* PeopleTracking, TeamTracking, CombinedTracking (person.rs), instantiated *)
(* with T = OwnershipScore (ownership.rs)                                  *)
(***************************************************************************)

\* OwnershipScore::default
DefaultScore == 0

\* OwnershipScore::add_hunk: total_lines_owned += hunk.lines_in_hunk() as u32.
\* The line counts of the model stay far below 2^32, where the u32 addition
\* is the addition of the integers.
add_hunk(score, lines) == score + lines

\* The value of key k in HashMap m after entry(k).or_insert_with(Default::default)
or_default(m, k) == IF k \in DOMAIN m THEN m[k] ELSE DefaultScore

\* HashMap m with key k set to v
put(m, k, v) == [x \in DOMAIN m \cup {k} |-> IF x = k THEN v ELSE m[x]]

\* The key a Person has in HashMap<&Person, T>: impl Hash / PartialEq for
\* Person hash and compare the name alone
person_key(person) == person.name

\* PeopleTracking::new.  lookup maps a key to the entry [person, value]: the
\* map keeps the reference it was first given for that key.
NewPeopleTracking == [lookup |-> EmptyMap]

\* PeopleTracking::for_person followed by func(slot), func = add_hunk(lines)
people_for_person(pt, person, lines) ==
    LET k == person_key(person)
        entry == IF k \in DOMAIN pt.lookup THEN pt.lookup[k]
                 ELSE [person |-> person, value |-> DefaultScore]
    IN  [lookup |-> put(pt.lookup, k,
                        [person |-> entry.person, value |-> add_hunk(entry.value, lines)])]

\* Option<T> of a value that is no string: <<>> is None, <<v>> is Some(v)
Some(v) == <<v>>
Nothing == <<>>

\* PeopleTracking::person_value
person_value(pt, person) ==
    IF person_key(person) \in DOMAIN pt.lookup
    THEN Some(pt.lookup[person_key(person)].value) ELSE Nothing

\* TeamTracking::new
NewTeamTracking == [no_team |-> DefaultScore, lookup |-> EmptyMap]

\* A for_team_name whose slot starts from the default at every call
team_for_team_name_overwriting(tt, team_name, lines) ==
    [no_team |-> tt.no_team,
     lookup |-> put(tt.lookup, team_name, add_hunk(DefaultScore, lines))]

\* TeamTracking::for_team_name followed by func(slot)
team_for_team_name(tt, team_name, lines) ==
    [no_team |-> tt.no_team,
     lookup |-> put(tt.lookup, team_name, add_hunk(or_default(tt.lookup, team_name), lines))]

\* TeamTracking::for_no_team followed by func(slot)
team_for_no_team(tt, lines) ==
    [no_team |-> add_hunk(tt.no_team, lines), lookup |-> tt.lookup]

\* TeamTracking::for_person followed by func(slot)
team_for_person(tt, person, lines) ==
    IF person.team_name # None
    THEN team_for_team_name(tt, person.team_name, lines)
    ELSE team_for_no_team(tt, lines)

\* CombinedTracking::new
NewCombinedTracking ==
    [people_tracking |-> NewPeopleTracking, team_tracking |-> NewTeamTracking]

\* CombinedTracking::track_person that applies func to the person slot twice
track_person_twice(ct, person, lines) ==
    [people_tracking |->
        people_for_person(people_for_person(ct.people_tracking, person, lines), person, lines),
     team_tracking |-> team_for_person(ct.team_tracking, person, lines)]

\* CombinedTracking::track_person(person, |score| score.add_hunk(lines))
track_person(ct, person, lines) ==
    [people_tracking |-> people_for_person(ct.people_tracking, person, lines),
     team_tracking   |-> team_for_person(ct.team_tracking, person, lines)]

\* The orders a HashMap with key set S can be iterated in: all of them
iter_orders(S) ==
    { o \in [1..Cardinality(S) -> S] : \A k \in S : \E i \in 1..Cardinality(S) : o[i] = k }

\* PeopleTracking::iter (CombinedTracking::people_iter) in iteration order o:
\* the items (&Person, &T)
people_iter(ct, o) ==
    [i \in 1..Len(o) |-> [key |-> ct.people_tracking.lookup[o[i]].person,
                          value |-> ct.people_tracking.lookup[o[i]].value]]

\* TeamTracking::iter that starts with the unaffiliated row already emitted
team_iter_emitted(tt, o) ==
    [emitted_no_team |-> TRUE,
     no_team_value |-> tt.no_team,
     inner |-> [i \in 1..Len(o) |-> [key |-> o[i], value |-> tt.lookup[o[i]]]]]

\* TeamTracking::iter, its HashMap iterated in order o
team_iter(tt, o) ==
    [emitted_no_team |-> FALSE,
     no_team_value |-> tt.no_team,
     inner |-> [i \in 1..Len(o) |-> [key |-> o[i], value |-> tt.lookup[o[i]]]]]

\* TeamTrackingIter::next: [item, iter], item an Option<(Option<&str>, &T)>
team_iter_next(it) ==
    IF ~it.emitted_no_team
    THEN [item |-> Some([key |-> None, value |-> it.no_team_value]),
          iter |-> [it EXCEPT !.emitted_no_team = TRUE]]
    ELSE IF it.inner # <<>>
         THEN [item |-> Some(Head(it.inner)), iter |-> [it EXCEPT !.inner = Tail(it.inner)]]
         ELSE [item |-> Nothing, iter |-> it]

\* All the items of a TeamTrackingIter (Iterator::map(..).collect())
RECURSIVE team_iter_collect(_)
team_iter_collect(it) ==
    LET n == team_iter_next(it)
    IN  IF n.item = Nothing THEN <<>> ELSE n.item \o team_iter_collect(n.iter)

\* CombinedTracking::team_iter, collected
team_items(ct, o) == team_iter_collect(team_iter(ct.team_tracking, o))

(***************************************************************************)
(* OwnershipStatistics (ownership.rs)                                      *)
(***************************************************************************)

\* Iterator::sum over the u32 values of the items, in their order
RECURSIVE sum_u32(_)
sum_u32(items) ==
    IF items = <<>> THEN 0 ELSE Head(items).value + sum_u32(Tail(items))

\* from_tracking that also adds the unaffiliated entry in
from_tracking_with_no_team(ct, o) ==
    [total_lines |-> sum_u32(people_iter(ct, o)) + ct.team_tracking.no_team]

\* OwnershipStatistics::from_tracking, the people HashMap iterated in order o
from_tracking(ct, o) == [total_lines |-> sum_u32(people_iter(ct, o))]

RECURSIVE gcd(_, _)
gcd(a, b) == IF b = 0 THEN a ELSE gcd(b, a % b)

\* (a as f32 / b as f32).  Line counts of the model are far below 2^24, so
\* both casts are exact and the quotient is the f32 nearest to a/b, written
\* here as the fraction a/b in lowest terms; x/0 is the infinity, written
\* 1/0, and 0/0 the NaN, written 0/0.
f32_div(a, b) ==
    IF b = 0 THEN (IF a = 0 THEN [num |-> 0, den |-> 0] ELSE [num |-> 1, den |-> 0])
    ELSE [num |-> a \div gcd(a, b), den |-> b \div gcd(a, b)]

\* OwnershipStatistics::compute_ownership
compute_ownership(st, score) ==
    [total_lines_owned |-> score, fraction_owned |-> f32_div(score, st.total_lines)]

\* Where a stable sort by decreasing total_lines_owned puts x when x comes
\* after everything in the sorted list: behind the entries not below it
RECURSIVE insert_desc(_, _)
insert_desc(sorted, x) ==
    IF sorted = <<>> THEN <<x>>
    ELSE IF Head(sorted).own.total_lines_owned >= x.own.total_lines_owned
         THEN <<Head(sorted)>> \o insert_desc(Tail(sorted), x)
         ELSE <<x>> \o sorted

\* toplist.sort_by(|a, b| b.1.cmp(&a.1)): slice::sort_by is stable
RECURSIVE sort_desc_upto(_, _)
sort_desc_upto(list, n) ==
    IF n = 0 THEN <<>> ELSE insert_desc(sort_desc_upto(list, n - 1), list[n])

\* sort_by left out
sort_desc_missing(list) == list

sort_desc(list) == sort_desc_upto(list, Len(list))

\* OwnershipStatistics::people_toplist, the people HashMap iterated in order o
people_toplist(st, ct, o) ==
    sort_desc([i \in 1..Len(o) |->
        [key |-> people_iter(ct, o)[i].key,
         own |-> compute_ownership(st, people_iter(ct, o)[i].value)]])

\* OwnershipStatistics::teams_toplist, the team HashMap iterated in order o
teams_toplist(st, ct, o) ==
    sort_desc([i \in 1..Len(team_items(ct, o)) |->
        [key |-> team_items(ct, o)[i].key,
         own |-> compute_ownership(st, team_items(ct, o)[i].value)]])

(***************************************************************************)
(* Configuration::people_db (configuration.rs)                             *)
(***************************************************************************)

\* The loop of people_db from database d over the Persons still to add:
\* db.add_person(person.clone())? leaves at the first Err
RECURSIVE people_db_from(_, _)
people_db_from(d, people) ==
    IF people = <<>> THEN { [db |-> d, result |-> Ok] }
    ELSE UNION { IF out.result.kind = "Ok"
                 THEN people_db_from(out.db, Tail(people))
                 ELSE { [db |-> NewDb, result |-> out.result] }
                 : out \in add_person(d, Head(people)) }

\* Configuration::people_db: the outcomes [db, result]
people_db(config) == people_db_from(NewDb, config.people)

(***************************************************************************)
(* ConfigurationBuilder (configuration.rs)                                 *)
(***************************************************************************)

\* git2::Signature: name() and email(), each None when it is not UTF-8
Signature(name, email) == [name |-> name, email |-> email]

\* Person::new(name) and Person::add_email
PersonNew(name) == Person(name, {}, None)
add_email(person, email) == [person EXCEPT !.emails = @ \cup {email}]

\* String's Ord over the names of the model: byte-wise, so in this order
SortedNames == << "Ann", "Jane", "John" >>
name_rank(name) == CHOOSE i \in 1..Len(SortedNames) : SortedNames[i] = name

\* impl Ord for Person: self.name.cmp(&other.name) is not Greater
person_le(a, b) == name_rank(a.name) <= name_rank(b.name)

\* struct Configuration { generated_at_sha, people }
Configuration(sha, people) == [generated_at_sha |-> sha, people |-> people]

\* ConfigurationBuilder::new
NewBuilder == [generated_at_sha |-> None, seen_emails |-> {}, people_by_name |-> EmptyMap]

\* ConfigurationBuilder::set_latest_commit_sha
set_latest_commit_sha(b, commit_sha) == [b EXCEPT !.generated_at_sha = commit_sha]

\* An add_author that does not look at seen_emails
add_author_unguarded(b, author) ==
    IF author.email # None /\ author.name # None
    THEN [b EXCEPT
            !.seen_emails = @ \cup {author.email},
            !.people_by_name =
                put(@, author.name,
                    add_email(IF author.name \in DOMAIN @ THEN @[author.name]
                              ELSE PersonNew(author.name),
                              author.email))]
    ELSE b

\* An add_author that puts a new Person in the place of the one of that name
add_author_replacing(b, author) ==
    IF author.email # None /\ author.email \notin b.seen_emails /\ author.name # None
    THEN [b EXCEPT
            !.seen_emails = @ \cup {author.email},
            !.people_by_name =
                put(@, author.name, add_email(PersonNew(author.name), author.email))]
    ELSE b

\* ConfigurationBuilder::add_author
add_author(b, author) ==
    IF author.email # None /\ author.email \notin b.seen_emails /\ author.name # None
    THEN [b EXCEPT
            !.seen_emails = @ \cup {author.email},
            !.people_by_name =
                put(@, author.name,
                    add_email(IF author.name \in DOMAIN @ THEN @[author.name]
                              ELSE PersonNew(author.name),
                              author.email))]
    ELSE b

\* The loop of read_existing over the Persons still to read
RECURSIVE read_people(_, _)
read_people(b, people) ==
    IF people = <<>> THEN b
    ELSE read_people([b EXCEPT
                        !.seen_emails = @ \cup Head(people).emails,
                        !.people_by_name = put(@, Head(people).name, Head(people))],
                     Tail(people))

\* A read_existing that leaves seen_emails as it was
read_existing_unseen(b, config) ==
    [read_people([b EXCEPT !.generated_at_sha = config.generated_at_sha], config.people)
        EXCEPT !.seen_emails = b.seen_emails]

\* ConfigurationBuilder::read_existing and from_existing
read_existing(b, config) ==
    read_people([b EXCEPT !.generated_at_sha = config.generated_at_sha], config.people)
from_existing(config) == read_existing(NewBuilder, config)

\* people.sort(): a stable sort by Ord for Person, here by insertion
RECURSIVE insert_person_sorted(_, _)
insert_person_sorted(sorted, x) ==
    IF sorted = <<>> THEN <<x>>
    ELSE IF person_le(Last(sorted), x) THEN Append(sorted, x)
    ELSE Append(insert_person_sorted(Pop(sorted), x), Last(sorted))

RECURSIVE sort_people_upto(_, _)
sort_people_upto(list, n) ==
    IF n = 0 THEN <<>> ELSE insert_person_sorted(sort_people_upto(list, n - 1), list[n])

sort_people(list) == sort_people_upto(list, Len(list))

\* bail!("Repository has no commit yet"): an Error of kind ErrorKind::Msg
Msg(text) == [kind |-> "Msg", msg |-> text]

\* An into_configuration that leaves the people as the map drained them
into_configuration_unsorted(b) ==
    IF b.generated_at_sha = None
    THEN { [result |-> Msg("Repository has no commit yet"), config |-> Nothing] }
    ELSE { [result |-> Ok,
            config |-> Some(Configuration(b.generated_at_sha,
                                          [i \in 1..Len(o) |-> b.people_by_name[o[i]]]))]
           : o \in iter_orders(DOMAIN b.people_by_name) }

\* ConfigurationBuilder::into_configuration: the outcomes [result, config],
\* one for every order people_by_name.drain() may have
into_configuration(b) ==
    IF b.generated_at_sha = None
    THEN { [result |-> Msg("Repository has no commit yet"), config |-> Nothing] }
    ELSE { [result |-> Ok,
            config |-> Some(Configuration(b.generated_at_sha,
                          sort_people([i \in 1..Len(o) |-> b.people_by_name[o[i]]])))]
           : o \in iter_orders(DOMAIN b.people_by_name) }

(***************************************************************************)
(* TreeWalker (tree_walker.rs).  A Tree is the sequence of its entries, a   *)
(* tree entry [name, kind, tree, binary, hunks]: kind "Tree" with the      *)
(* sub-tree in tree, or kind "Blob" with the blob's binary flag and the    *)
(* hunks git blames the file with.                                         *)
(***************************************************************************)

\* BlameHunk: orig_signature() (name, email; email None when it is not
\* UTF-8) and lines_in_hunk()
Hunk(name, email, lines) == [name |-> name, email |-> email, lines |-> lines]

\* A tree entry of a blob and of a sub-tree
Blob(name, binary, hunks) ==
    [name |-> name, kind |-> "Blob", tree |-> <<>>, binary |-> binary, hunks |-> hunks]
Tree(name, entries) ==
    [name |-> name, kind |-> "Tree", tree |-> entries, binary |-> FALSE, hunks |-> <<>>]

\* Entry::new(path, tree_entry): id is the object the entry names
EntryNew(path, tree_entry) ==
    [id   |-> tree_entry,
     path |-> path \o <<tree_entry.name>>,
     kind |-> IF tree_entry.kind = "Tree" THEN "Directory" ELSE "File"]

\* Entry::is_file
is_file(entry) == entry.kind = "File"

\* Entry::tree: Some(tree) for a directory, written <<tree>>
entry_tree(entry) == IF entry.kind = "Directory" THEN Some(entry.id.tree) ELSE Nothing

\* Entry::blob(repo).unwrap().is_binary()
blob_is_binary(entry) == entry.id.binary

\* repo.blame_file(entry.path(), ..).iter(): the hunks of the file, in order
blame_file(entry) == entry.id.hunks

\* TreeWalker::new
TreeWalkerNew(t) == [tree_stack |-> <<t>>, cursor_stack |-> <<0>>, path_stack |-> <<>>]

\* A next that leaves the name of a finished directory on path_stack
RECURSIVE TreeWalkerNext_keeping_path(_)
TreeWalkerNext_keeping_path(w) ==
    IF w.cursor_stack = <<>> THEN [item |-> Nothing, walker |-> w]
    ELSE LET current_index == Last(w.cursor_stack)
             current_tree  == Last(w.tree_stack)
         IN  IF current_index < Len(current_tree)
             THEN LET entry == EntryNew(w.path_stack, current_tree[current_index + 1])
                      restored == [w EXCEPT !.cursor_stack =
                                               Append(Pop(w.cursor_stack), current_index + 1)]
                  IN  [item |-> Some(entry),
                       walker |->
                          IF entry_tree(entry) # Nothing
                          THEN [tree_stack   |-> Append(restored.tree_stack, entry_tree(entry)[1]),
                                cursor_stack |-> Append(restored.cursor_stack, 0),
                                path_stack   |-> Append(restored.path_stack, Last(entry.path))]
                          ELSE restored]
             ELSE TreeWalkerNext_keeping_path([tree_stack   |-> Pop(w.tree_stack),
                                               cursor_stack |-> Pop(w.cursor_stack),
                                               path_stack   |-> w.path_stack])

\* A next that returns None at the end of every directory instead of going on
\* with the directory above
TreeWalkerNext_ending_early(w) ==
    IF w.cursor_stack = <<>> THEN [item |-> Nothing, walker |-> w]
    ELSE LET current_index == Last(w.cursor_stack)
             current_tree  == Last(w.tree_stack)
         IN  IF current_index < Len(current_tree)
             THEN LET entry == EntryNew(w.path_stack, current_tree[current_index + 1])
                      restored == [w EXCEPT !.cursor_stack =
                                               Append(Pop(w.cursor_stack), current_index + 1)]
                  IN  [item |-> Some(entry),
                       walker |->
                          IF entry_tree(entry) # Nothing
                          THEN [tree_stack   |-> Append(restored.tree_stack, entry_tree(entry)[1]),
                                cursor_stack |-> Append(restored.cursor_stack, 0),
                                path_stack   |-> Append(restored.path_stack, Last(entry.path))]
                          ELSE restored]
             ELSE [item |-> Nothing,
                   walker |-> [tree_stack   |-> Pop(w.tree_stack),
                               cursor_stack |-> Pop(w.cursor_stack),
                               path_stack   |-> Pop(w.path_stack)]]

\* How many invocations of next() are on the call stack at the deepest point
\* of one next() call: the call itself, and for an exhausted frame the
\* `self.next()` it makes while its own frame (current_tree is dropped only
\* after the inner call returns) is still there
RECURSIVE next_invocations(_)
next_invocations(w) ==
    IF w.cursor_stack = <<>> THEN 1
    ELSE IF Last(w.cursor_stack) < Len(Last(w.tree_stack)) THEN 1
    ELSE 1 + next_invocations([tree_stack   |-> Pop(w.tree_stack),
                               cursor_stack |-> Pop(w.cursor_stack),
                               path_stack   |-> Pop(w.path_stack)])

\* TreeWalker::next: [item, walker], item an Option<Entry>
RECURSIVE TreeWalkerNext(_)
TreeWalkerNext(w) ==
    IF w.cursor_stack = <<>> THEN [item |-> Nothing, walker |-> w]
    ELSE LET current_index == Last(w.cursor_stack)
             current_tree  == Last(w.tree_stack)
         IN  IF current_index < Len(current_tree)
             THEN LET entry == EntryNew(w.path_stack, current_tree[current_index + 1])
                      restored == [w EXCEPT !.cursor_stack =
                                               Append(Pop(w.cursor_stack), current_index + 1)]
                  IN  [item |-> Some(entry),
                       walker |->
                          IF entry_tree(entry) # Nothing
                          THEN [tree_stack   |-> Append(restored.tree_stack, entry_tree(entry)[1]),
                                cursor_stack |-> Append(restored.cursor_stack, 0),
                                path_stack   |-> Append(restored.path_stack, Last(entry.path))]
                          ELSE restored]
             ELSE TreeWalkerNext([tree_stack   |-> Pop(w.tree_stack),
                                  cursor_stack |-> Pop(w.cursor_stack),
                                  path_stack   |-> Pop(w.path_stack)])

(***************************************************************************)
(* ownership::calculate (ownership.rs)                                     *)
(***************************************************************************)

\* A find_by_signature that looks for a Person of the signature's name before
\* it looks the email up
find_by_signature_by_name(d, signature) ==
    IF \E i \in 1..Len(d.people) : d.people[i].name = signature.name
    THEN LET i == CHOOSE i \in 1..Len(d.people) : d.people[i].name = signature.name
         IN  Found(i - 1, d.people[i])
    ELSE find_by_email(d, IF signature.email = None THEN "" ELSE signature.email)

\* PeopleDatabase::find_by_signature: signature.email().unwrap_or("")
find_by_signature(d, signature) ==
    find_by_email(d, IF signature.email = None THEN "" ELSE signature.email)

(***************************************************************************)
(* Specification Spec: a PeopleDatabase under add_person calls             *)
(***************************************************************************)

NoCall == [kind |-> "NoCall"]

IdleTracking ==
    /\ owners = None
    /\ tracked = None
    /\ lastTrack = None
    /\ phase = None
    /\ stats = None
    /\ people_top = None
    /\ teams_top = None

IdleCalc ==
    /\ tree = None
    /\ walker = None
    /\ blame = None
    /\ processed = None
    /\ calc = None

IdleWalk ==
    /\ yielded = None
    /\ next_result = None
    /\ end_calls = None

IdleBuild ==
    /\ builder = None
    /\ from_config = None
    /\ records = None
    /\ checkpoint = None
    /\ output = None

Init ==
    /\ db = NewDb
    /\ candidate = None
    /\ lastResult = NoCall
    /\ accepted = <<>>
    /\ IdleTracking
    /\ IdleCalc
    /\ IdleWalk
    /\ IdleBuild

\* One call db.add_person(person)
AddPerson ==
    \E person \in Candidates :
        \E out \in add_person(db, person) :
            /\ out.result.kind = "Ok" => Len(db.people) < MaxPeople
            /\ db' = out.db
            /\ candidate' = person
            /\ lastResult' = out.result
            /\ accepted' = IF out.result.kind = "Ok"
                           THEN Append(accepted, person) ELSE accepted
            /\ UNCHANGED <<trackVars, calcVars, walkVars, buildVars>>

Next == AddPerson

Spec == Init /\ [][Next]_vars

(***************************************************************************)
(* Claims about the PeopleDatabase, checked under Spec                     *)
(***************************************************************************)

\* The aliases findByAlias is asked for: those of the inputs and one that no
\* Person carries
AllAliases == Emails \cup {"unknown@example.com"}

\* C1: after any sequence of add_person calls, successful or failing, no
\* alias is in the alias sets of two different Persons of the registry, and
\* every alias of the index points at a Person of the registry whose alias
\* set contains it.
C1_AliasMapsToOnePerson ==
    /\ \A i, j \in 1..Len(db.people) :
          i # j => db.people[i].emails \cap db.people[j].emails = {}
    /\ \A e \in DOMAIN db.lookup :
          /\ db.lookup[e] \in 0..(Len(db.people) - 1)
          /\ e \in db.people[db.lookup[e] + 1].emails

\* C1 witness: two Persons with aliases are stored and an add has just failed
C1_Witness ==
    /\ lastResult.kind = "ConflictingEmail"
    /\ Len(db.people) >= 2
    /\ \E i, j \in 1..Len(db.people) :
          i # j /\ db.people[i].emails # {} /\ db.people[j].emails # {}

\* C2: an add_person call whose candidate has an alias that is already
\* indexed returns ConflictingEmail(existing owner's name, candidate's name,
\* alias), the alias being one of both the existing owner and the candidate,
\* and leaves the Person list and the alias index exactly as they were.
C2_ConflictLeavesRegistryUnchanged ==
    [][ candidate'.emails \cap DOMAIN db.lookup # {} =>
          /\ lastResult'.kind = "ConflictingEmail"
          /\ lastResult'.new = candidate'.name
          /\ lastResult'.email \in candidate'.emails
          /\ \E i \in 1..Len(db.people) :
                /\ lastResult'.email \in db.people[i].emails
                /\ lastResult'.existing = db.people[i].name
          /\ db'.people = db.people
          /\ Len(db'.people) = Len(db.people)
          /\ db'.lookup = db.lookup
          /\ \A e \in candidate'.emails \ DOMAIN db.lookup : e \notin DOMAIN db'.lookup
      ]_vars

\* C2 witness: a rejected candidate that also carried an alias nobody owns
C2_Witness ==
    /\ lastResult.kind = "ConflictingEmail"
    /\ candidate.emails \cap DOMAIN db.lookup # {}
    /\ candidate.emails \ DOMAIN db.lookup # {}

\* C3: every alias of every Person whose add succeeded resolves, through
\* find_by_email, to that Person (now and after every later add), and every
\* alias of no successfully added Person gives UnknownEmail(alias); so the
\* free aliases of a rejected candidate resolve to nobody.
C3_FindByAliasResolvesAccepted ==
    /\ \A i \in 1..Len(accepted) : \A a \in accepted[i].emails :
          find_by_email(db, a) = [kind |-> "Ok", index |-> i - 1, person |-> accepted[i]]
    /\ \A a \in AllAliases :
          (\A i \in 1..Len(accepted) : a \notin accepted[i].emails)
              => find_by_email(db, a) = [kind |-> "UnknownEmail", email |-> a]

\* C3 witness: two Persons were added, then a candidate was rejected that
\* carried an alias of no added Person
C3_Witness ==
    /\ Len(accepted) >= 2
    /\ lastResult.kind = "ConflictingEmail"
    /\ \E a \in candidate.emails : \A i \in 1..Len(accepted) : a \notin accepted[i].emails

\* C4: an add_person call whose candidate has no indexed alias (an empty
\* alias set included) returns Ok and makes the registry exactly one Person
\* longer, every stored Person and every indexed alias staying as it was.
C4_DisjointAddAppendsOne ==
    [][ candidate'.emails \cap DOMAIN db.lookup = {} =>
          /\ lastResult' = [kind |-> "Ok"]
          /\ Len(db'.people) = Len(db.people) + 1
          /\ db'.people[Len(db'.people)] = candidate'
          /\ \A i \in 1..Len(db.people) : db'.people[i] = db.people[i]
          /\ \A e \in DOMAIN db.lookup :
                e \in DOMAIN db'.lookup /\ db'.lookup[e] = db.lookup[e]
      ]_vars

\* C4 witness: a candidate without aliases was added to a registry of two
C4_Witness ==
    /\ lastResult.kind = "Ok"
    /\ candidate.emails = {}
    /\ Len(db.people) = 3
    /\ DOMAIN db.lookup # {}

\* C5: the registry never holds two Persons with the same display name.
C5_DisplayNamesUnique ==
    \A i, j \in 1..Len(db.people) : i # j => db.people[i].name # db.people[j].name

(***************************************************************************)
(* Specification SpecTracking: a CombinedTracking<OwnershipScore> under     *)
(* track_person calls, then the OwnershipStatistics built from it          *)
(***************************************************************************)

\* The Persons handed to track_person.  Two of them are both named Jane: a
\* PeopleDatabase accepts them together, their aliases being disjoint.
TrackPersons ==
    { Person("Jane", {"e1"}, None),
      Person("John", {"e2"}, "Team 1"),
      Person("Jane", {"e3"}, "Team 2"),
      Person("Ann", {}, "Team 1") }

\* The lines_in_hunk() of the hunks tracked
HunkLines == {1, 2}

\* How many track_person calls an accumulator of the model receives at most
MaxTracks == 4

IdleDb ==
    /\ db = None
    /\ candidate = None
    /\ lastResult = None
    /\ accepted = None

InitTracking ==
    /\ owners = NewCombinedTracking
    /\ tracked = [p \in TrackPersons |-> 0]
    /\ lastTrack = [person |-> None, lines |-> 0, calls |-> 0]
    /\ phase = "tracking"
    /\ stats = Nothing
    /\ people_top = Nothing
    /\ teams_top = Nothing
    /\ IdleDb
    /\ IdleCalc
    /\ IdleWalk
    /\ IdleBuild

\* owners.track_person(person, |score| score.add_hunk(&hunk))
TrackPerson ==
    /\ phase = "tracking"
    /\ lastTrack.calls < MaxTracks
    /\ \E person \in TrackPersons, lines \in HunkLines :
          /\ owners' = track_person(owners, person, lines)
          /\ tracked' = [tracked EXCEPT ![person] = @ + lines]
          /\ lastTrack' = [person |-> person, lines |-> lines, calls |-> lastTrack.calls + 1]
    /\ UNCHANGED <<phase, stats, people_top, teams_top, dbVars, calcVars, walkVars, buildVars>>

\* OwnershipStatistics::from_tracking(owners): the accumulator moves into
\* the statistics and is not tracked into again
FromTracking ==
    /\ phase = "tracking"
    /\ \E o \in iter_orders(DOMAIN owners.people_tracking.lookup) :
          stats' = Some(from_tracking(owners, o))
    /\ phase' = "finished"
    /\ UNCHANGED <<owners, tracked, lastTrack, people_top, teams_top, dbVars, calcVars, walkVars, buildVars>>

\* stats.people_toplist()
PeopleToplist ==
    /\ phase = "finished"
    /\ \E o \in iter_orders(DOMAIN owners.people_tracking.lookup) :
          people_top' = Some(people_toplist(stats[1], owners, o))
    /\ UNCHANGED <<owners, tracked, lastTrack, phase, stats, teams_top, dbVars, calcVars, walkVars, buildVars>>

\* stats.teams_toplist()
TeamsToplist ==
    /\ phase = "finished"
    /\ \E o \in iter_orders(DOMAIN owners.team_tracking.lookup) :
          teams_top' = Some(teams_toplist(stats[1], owners, o))
    /\ UNCHANGED <<owners, tracked, lastTrack, phase, stats, people_top, dbVars, calcVars, walkVars, buildVars>>

NextTracking == TrackPerson \/ FromTracking \/ PeopleToplist \/ TeamsToplist

SpecTracking == InitTracking /\ [][NextTracking]_vars

(***************************************************************************)
(* Specification SpecCalc: one pass of ownership::calculate                *)
(***************************************************************************)

\* The people lists of the configurations the registry is built from
CalcConfigs ==
    { [people |-> << Person("Jane", {"e1"}, None), Person("John", {"e2"}, "Team 1") >>],
      [people |-> << Person("Jane", {"e1", "e2"}, "Team 1"), Person("Anon", {""}, None) >>],
      [people |-> << Person("Jane", {"e1", "e9"}, None), Person("Jane", {"e2"}, "Team 2"),
                     Person("Mallory", {"e8"}, "Team 2") >>] }

\* The trees calculate is run over
CalcTrees ==
    { \* every alias known, two files
      << Blob("file1", FALSE, << Hunk("Jane", "e1", 10), Hunk("John", "e2", 5) >>),
         Blob("file2", FALSE, << Hunk("Jane", "e1", 3) >>) >>,
      \* an unknown alias between known ones, a file after it
      << Blob("a.txt", FALSE, << Hunk("Jane", "e1", 2), Hunk("Eve", "e9", 1),
                                 Hunk("John", "e2", 1) >>),
         Blob("b.txt", FALSE, << Hunk("Jane", "e1", 1) >>) >>,
      \* two unknown aliases in a nested directory, a file after it
      << Tree("dir", << Blob("b.txt", FALSE, << Hunk("Jane", "e1", 1) >>),
                        Tree("subdir", << Blob("c.txt", FALSE,
                              << Hunk("Eve", "e9", 2), Hunk("Mallory", "e8", 1) >>) >>) >>),
         Blob("z.txt", FALSE, << Hunk("John", "e2", 1) >>) >>,
      \* a binary file, which is not blamed, and an empty file
      << Blob("img.png", TRUE, << Hunk("Eve", "e9", 1) >>),
         Blob("empty", FALSE, << >>),
         Blob("a.txt", FALSE, << Hunk("Jane", "e1", 1) >>) >>,
      \* an author email that is not UTF-8, after an empty directory
      << Tree("empty", << >>),
         Blob("a.txt", FALSE, << Hunk("John", "e2", 1), Hunk("Raw", None, 4) >>) >>,
      \* directories that end in empty directories, an unknown alias last
      << Tree("d1", << Tree("d2", << Tree("d3", << >>) >>),
                       Blob("x", FALSE, << Hunk("John", "e2", 2), Hunk("Jane", "e1", 1) >>) >>),
         Blob("y", FALSE, << Hunk("Jane", "e1", 1), Hunk("Zed", "e7", 1) >>) >>,
      \* root/{a.txt, dir/{b.txt, subdir/{c.txt}}}
      << Blob("a.txt", FALSE, << Hunk("Jane", "e1", 1) >>),
         Tree("dir", << Blob("b.txt", FALSE, << Hunk("Mallory", "e8", 2) >>),
                        Tree("subdir", << Blob("c.txt", FALSE,
                              << Hunk("John", "e2", 1) >>) >>) >>) >>,
      \* hunks whose author names are those of the other Person's alias
      << Blob("swap", FALSE, << Hunk("John", "e1", 4), Hunk("Jane", "e2", 2) >>),
         Blob("swap.bin", TRUE, << Hunk("Jane", "e1", 7) >>) >>,
      \* the empty tree
      << >> }

Running == [kind |-> "Running"]

InitCalc ==
    /\ \E config \in CalcConfigs : \E out \in people_db(config) :
          out.result.kind = "Ok" /\ db = out.db
    /\ tree \in CalcTrees
    /\ walker = TreeWalkerNew(tree)
    /\ blame = <<>>
    /\ processed = <<>>
    /\ calc = [pc |-> "walking", result |-> Running]
    /\ owners = NewCombinedTracking
    /\ stats = Nothing
    /\ candidate = None
    /\ lastResult = None
    /\ accepted = None
    /\ tracked = None
    /\ lastTrack = None
    /\ phase = None
    /\ people_top = None
    /\ teams_top = None
    /\ IdleWalk
    /\ IdleBuild

\* One turn of `for entry in TreeWalker::new(..)`: a directory or a binary
\* file is passed over, another file is blamed
CalcEntry ==
    /\ calc.pc = "walking"
    /\ TreeWalkerNext(walker).item # Nothing
    /\ LET entry == TreeWalkerNext(walker).item[1]
           hunks == IF is_file(entry) /\ ~blob_is_binary(entry)
                    THEN blame_file(entry) ELSE <<>>
       IN  /\ blame' = hunks
           /\ calc' = [calc EXCEPT !.pc = IF hunks # <<>> THEN "blaming" ELSE "walking"]
    /\ walker' = TreeWalkerNext(walker).walker
    /\ UNCHANGED <<tree, processed, db, owners, stats, candidate, lastResult, accepted,
                   tracked, lastTrack, phase, people_top, teams_top, walkVars, buildVars>>

\* One turn of `for hunk in blame.iter()` whose author is in the registry:
\* owners.track_person(person, |score| score.add_hunk(&hunk))
CalcTrackHunk ==
    /\ calc.pc = "blaming"
    /\ find_by_signature(db, Head(blame)).kind = "Ok"
    /\ owners' = track_person(owners, find_by_signature(db, Head(blame)).person,
                              Head(blame).lines)
    /\ processed' = Append(processed,
                           [hunk |-> Head(blame),
                            index |-> find_by_signature(db, Head(blame)).index])
    /\ blame' = Tail(blame)
    /\ calc' = [calc EXCEPT !.pc = IF Tail(blame) # <<>> THEN "blaming" ELSE "walking"]
    /\ UNCHANGED <<tree, walker, db, stats, candidate, lastResult, accepted,
                   tracked, lastTrack, phase, people_top, teams_top, walkVars, buildVars>>

\* A turn of the hunk loop that passes over a hunk of an unknown author
CalcSkipUnknown ==
    /\ calc.pc = "blaming"
    /\ find_by_signature(db, Head(blame)).kind # "Ok"
    /\ blame' = Tail(blame)
    /\ calc' = [calc EXCEPT !.pc = IF Tail(blame) # <<>> THEN "blaming" ELSE "walking"]
    /\ UNCHANGED <<tree, walker, processed, db, owners, stats, candidate, lastResult,
                   accepted, tracked, lastTrack, phase, people_top, teams_top, walkVars, buildVars>>

\* people_db.find_by_signature(hunk.orig_signature())? on an Err: calculate
\* returns it, the accumulator is dropped
CalcAbort ==
    /\ calc.pc = "blaming"
    /\ find_by_signature(db, Head(blame)).kind # "Ok"
    /\ calc' = [pc |-> "failed", result |-> find_by_signature(db, Head(blame))]
    /\ UNCHANGED <<tree, walker, blame, processed, db, owners, stats, candidate,
                   lastResult, accepted, tracked, lastTrack, phase, people_top, teams_top, walkVars, buildVars>>

\* The walker is exhausted: Ok(OwnershipStatistics::from_tracking(owners))
CalcFinish ==
    /\ calc.pc = "walking"
    /\ TreeWalkerNext(walker).item = Nothing
    /\ \E o \in iter_orders(DOMAIN owners.people_tracking.lookup) :
          stats' = Some(from_tracking(owners, o))
    /\ walker' = TreeWalkerNext(walker).walker
    /\ calc' = [pc |-> "done", result |-> Ok]
    /\ UNCHANGED <<tree, blame, processed, db, owners, candidate, lastResult, accepted,
                   tracked, lastTrack, phase, people_top, teams_top, walkVars, buildVars>>

NextCalc == CalcEntry \/ CalcTrackHunk \/ CalcAbort \/ CalcFinish

SpecCalc == InitCalc /\ [][NextCalc]_vars

(***************************************************************************)
(* Specification SpecWalker: a TreeWalker under next() calls               *)
(***************************************************************************)

\* The trees of at most two entries, "a" and then "b", each a file or a
\* directory whose tree is one of the set S
TreesOver(S) ==
    LET E(n) == { Blob(n, FALSE, <<>>) } \cup { Tree(n, t) : t \in S }
    IN  { <<>> } \cup { <<a>> : a \in E("a") } \cup { <<a, b>> : a \in E("a"), b \in E("b") }

\* The trees walked: those of calculate, every tree of two levels of
\* directories below the root, and directories nested deeply that hold nothing
WalkTrees ==
    CalcTrees
    \cup TreesOver(TreesOver({ <<>>, << Blob("a", FALSE, <<>>) >> }))
    \cup { << Tree("d1", << Tree("d2", << Tree("d3", << Tree("d4", << >>) >>) >>) >>),
              Tree("d5", << Tree("d6", << >>) >>) >> }

\* How many next() calls that return None the model follows
MaxEndCalls == 2

InitWalker ==
    /\ tree \in WalkTrees
    /\ walker = TreeWalkerNew(tree)
    /\ yielded = <<>>
    /\ next_result = [called |-> FALSE, item |-> Nothing, invocations |-> 0]
    /\ end_calls = 0
    /\ blame = None
    /\ processed = None
    /\ calc = None
    /\ IdleDb
    /\ IdleTracking
    /\ IdleBuild

\* One call walker.next()
WalkerNext ==
    /\ end_calls < MaxEndCalls
    /\ LET r == TreeWalkerNext(walker)
       IN  /\ walker' = r.walker
           /\ next_result' = [called |-> TRUE, item |-> r.item,
                               invocations |-> next_invocations(walker)]
           /\ yielded' = IF r.item # Nothing THEN Append(yielded, r.item[1]) ELSE yielded
           /\ end_calls' = IF r.item = Nothing THEN end_calls + 1 ELSE end_calls
    /\ UNCHANGED <<tree, blame, processed, calc, dbVars, trackVars, buildVars>>

NextWalker == WalkerNext

SpecWalker == InitWalker /\ [][NextWalker]_vars

(***************************************************************************)
(* Specification SpecBuilder: a ConfigurationBuilder, new or made from an  *)
(* existing Configuration, under add_author and set_latest_commit_sha      *)
(* calls, then into_configuration                                          *)
(***************************************************************************)

\* The signatures of the commits' authors
Signatures ==
    { Signature(n, e) : n \in {"Jane", "John", None}, e \in {"e1", "e2", None} }

\* The commit ids handed to set_latest_commit_sha
Shas == {"sha1", "sha2"}

\* The existing configurations a builder is made from: written by an
\* earlier build, or edited by hand since (teams, a second Jane, any order,
\* an alias given to two Persons)
BuilderConfigs ==
    { Configuration("sha0", << Person("Ann", {"e3"}, "Team 1"), Person("Jane", {"e1"}, None) >>),
      Configuration("sha0", << Person("John", {"e2"}, "Team 1"), Person("Ann", {}, None) >>),
      Configuration("sha0", << Person("Jane", {"e1"}, None), Person("Jane", {"e3"}, "Team 1") >>),
      Configuration("sha0", << Person("Jane", {"e1"}, None), Person("John", {"e1", "e2"}, "Team 1") >>),
      Configuration("sha0", << >>) }

\* How many add_author calls a builder of the model receives at most
MaxRecords == 3

InitBuilder ==
    /\ \/ /\ from_config = Nothing
          /\ builder = NewBuilder
          /\ checkpoint = None
       \/ \E config \in BuilderConfigs :
             /\ from_config = Some(config)
             /\ builder = from_existing(config)
             /\ checkpoint = config.generated_at_sha
    /\ records = <<>>
    /\ output = Nothing
    /\ IdleDb
    /\ IdleTracking
    /\ IdleCalc
    /\ IdleWalk

\* builder.add_author(commit.author())
BuilderAddAuthor ==
    /\ output = Nothing
    /\ Len(records) < MaxRecords
    /\ \E author \in Signatures :
          /\ builder' = add_author(builder, author)
          /\ records' = Append(records, author)
    /\ UNCHANGED <<from_config, checkpoint, output, dbVars, trackVars, calcVars, walkVars>>

\* builder.set_latest_commit_sha(sha)
BuilderSetSha ==
    /\ output = Nothing
    /\ \E sha \in Shas :
          /\ builder' = set_latest_commit_sha(builder, sha)
          /\ checkpoint' = sha
    /\ UNCHANGED <<from_config, records, output, dbVars, trackVars, calcVars, walkVars>>

\* builder.into_configuration(), which consumes the builder
BuilderFinalize ==
    /\ output = Nothing
    /\ \E out \in into_configuration(builder) : output' = Some(out)
    /\ UNCHANGED <<builder, from_config, records, checkpoint, dbVars, trackVars, calcVars,
                   walkVars>>

NextBuilder == BuilderAddAuthor \/ BuilderSetSha \/ BuilderFinalize

SpecBuilder == InitBuilder /\ [][NextBuilder]_vars

(***************************************************************************)
(* Claims about the accumulators and the statistics, checked under         *)
(* SpecTracking                                                            *)
(***************************************************************************)

\* The lines tracked through the Persons of set S
RECURSIVE TrackedLines(_)
TrackedLines(S) ==
    IF S = {} THEN 0
    ELSE LET p == CHOOSE x \in S : TRUE IN tracked[p] + TrackedLines(S \ {p})

\* The team names track_person was called for
TouchedTeams == { p.team_name : p \in { q \in TrackPersons : tracked[q] > 0 } } \ {None}

\* The Persons that are the same Person as p to the accumulator: Person's
\* PartialEq compares the display name
SamePerson(p) == { q \in TrackPersons : q.name = p.name }

\* What one track_person(p, +n) call does to the slots: n more in p's person
\* slot and in p's team slot (the unaffiliated one for a Person without
\* team), a missing slot starting at the default 0, every other slot as it was
C6_TrackStep ==
    lastTrack'.calls = lastTrack.calls + 1 =>
        LET p   == lastTrack'.person
            n   == lastTrack'.lines
            pl  == owners.people_tracking.lookup
            pl2 == owners'.people_tracking.lookup
            tt  == owners.team_tracking
            tt2 == owners'.team_tracking
            t   == p.team_name
        IN  /\ DOMAIN pl2 = DOMAIN pl \cup {p.name}
            /\ pl2[p.name].value = (IF p.name \in DOMAIN pl THEN pl[p.name].value ELSE 0) + n
            /\ \A k \in DOMAIN pl \ {p.name} : pl2[k] = pl[k]
            /\ IF t = None
               THEN tt2.no_team = tt.no_team + n /\ tt2.lookup = tt.lookup
               ELSE /\ tt2.no_team = tt.no_team
                    /\ DOMAIN tt2.lookup = DOMAIN tt.lookup \cup {t}
                    /\ tt2.lookup[t] = (IF t \in DOMAIN tt.lookup THEN tt.lookup[t] ELSE 0) + n
                    /\ \A k \in DOMAIN tt.lookup \ {t} : tt2.lookup[k] = tt.lookup[k]

\* What the slots hold after any number of calls: a tracked Person's score is
\* the lines tracked for that Person, a team-level slot the lines tracked
\* for the Persons routed to it, and nobody untracked has a slot
C6_TrackTotals ==
    /\ \A p \in TrackPersons :
          person_value(owners.people_tracking, p) =
              IF TrackedLines(SamePerson(p)) > 0
              THEN <<TrackedLines(SamePerson(p))>> ELSE <<>>
    /\ owners.team_tracking.no_team =
          TrackedLines({ p \in TrackPersons : p.team_name = None })
    /\ DOMAIN owners.team_tracking.lookup = TouchedTeams
    /\ \A t \in TouchedTeams :
          owners.team_tracking.lookup[t] =
              TrackedLines({ p \in TrackPersons : p.team_name = t })

\* C6: every track_person(person, +n) call applies the mutation once to that
\* Person's slot and once to the one matching team-level slot (the
\* unaffiliated slot without a team), creates a missing slot at the default
\* first and changes no other slot; so tracking a Person N times with +1
\* gives that Person the score N and adds N to that team-level slot.
C6_TrackOncePerSlot == []C6_TrackTotals /\ [][C6_TrackStep]_vars

\* C6 witness: a Person tracked twice with +1 has the score 2, after calls
\* for a Person in a team and for one in none
C6_Witness ==
    /\ lastTrack.calls >= 3
    /\ lastTrack.lines = 1
    /\ tracked[lastTrack.person] = 2
    /\ person_value(owners.people_tracking, lastTrack.person) = <<2>>
    /\ owners.team_tracking.no_team > 0
    /\ DOMAIN owners.team_tracking.lookup # {}

\* The rows a Team Accumulator yields, whatever the order of its HashMap
TeamRows == { team_items(owners, o) : o \in iter_orders(DOMAIN owners.team_tracking.lookup) }

\* C7: iterating the Team Accumulator yields the unaffiliated row (key None,
\* the value of the unaffiliated slot) exactly once in every state, a fresh
\* accumulator included, and exactly one row per team name ever touched.
C7_UnaffiliatedRowAlwaysOnce ==
    \A rows \in TeamRows :
        /\ Cardinality({ i \in 1..Len(rows) : rows[i].key = None }) = 1
        /\ \A i \in 1..Len(rows) :
              rows[i].key = None =>
                  rows[i].value = TrackedLines({ p \in TrackPersons : p.team_name = None })
        /\ \A t \in TouchedTeams :
              Cardinality({ i \in 1..Len(rows) : rows[i].key = t }) = 1
        /\ Len(rows) = 1 + Cardinality(TouchedTeams)

\* C7 witness: teams were tracked, nobody unaffiliated was
C7_Witness ==
    /\ phase = "tracking"
    /\ owners.team_tracking.no_team = 0
    /\ Cardinality(DOMAIN owners.team_tracking.lookup) = 2

\* The sum of the values of the person entries
RECURSIVE PersonEntriesSum(_)
PersonEntriesSum(keys) ==
    IF keys = {} THEN 0
    ELSE LET k == CHOOSE x \in keys : TRUE
         IN  owners.people_tracking.lookup[k].value + PersonEntriesSum(keys \ {k})

\* C8: total_lines of the statistics built from a finished accumulator is
\* the sum of the line counts of all its person entries, each counted once
\* (which is every tracked line once), team-level entries not added in.
C8_TotalLinesIsPersonSum ==
    phase = "finished" =>
        /\ stats # <<>>
        /\ stats[1].total_lines = PersonEntriesSum(DOMAIN owners.people_tracking.lookup)
        /\ stats[1].total_lines = TrackedLines(TrackPersons)

\* C8 witness: statistics over two person entries, a team entry and a
\* non-empty unaffiliated entry
C8_Witness ==
    /\ phase = "finished"
    /\ Cardinality(DOMAIN owners.people_tracking.lookup) >= 2
    /\ owners.team_tracking.no_team > 0
    /\ DOMAIN owners.team_tracking.lookup # {}

\* A toplist is ordered by non-increasing line count and every entry's
\* fraction is its line count divided by total_lines (0/0 giving the NaN)
ToplistOrderedWithFractions(list) ==
    /\ \A i \in 1..(Len(list) - 1) :
          list[i].own.total_lines_owned >= list[i + 1].own.total_lines_owned
    /\ \A i \in 1..Len(list) :
          IF stats[1].total_lines > 0
          THEN /\ list[i].own.fraction_owned.den > 0
               /\ list[i].own.fraction_owned.num * stats[1].total_lines
                    = list[i].own.total_lines_owned * list[i].own.fraction_owned.den
          ELSE list[i].own.fraction_owned = [num |-> 0, den |-> 0]

\* C9: people_toplist() has exactly one entry per person entry of the
\* accumulator and teams_toplist() one per team entry plus the unaffiliated
\* row (key None); both are ordered by non-increasing line count, each entry
\* has the line count of its slot and the fraction line count / total_lines.
C9_ToplistsCoverSlotsInOrder ==
    /\ people_top # <<>> =>
          LET list == people_top[1]
              slots == owners.people_tracking.lookup
          IN  /\ Len(list) = Cardinality(DOMAIN slots)
              /\ \A k \in DOMAIN slots :
                    \E i \in 1..Len(list) :
                        /\ list[i].key = slots[k].person
                        /\ list[i].own.total_lines_owned = slots[k].value
              /\ ToplistOrderedWithFractions(list)
    /\ teams_top # <<>> =>
          LET list == teams_top[1]
              slots == owners.team_tracking.lookup
          IN  /\ Len(list) = Cardinality(DOMAIN slots) + 1
              /\ \A k \in DOMAIN slots :
                    \E i \in 1..Len(list) :
                        /\ list[i].key = k
                        /\ list[i].own.total_lines_owned = slots[k]
              /\ \E i \in 1..Len(list) :
                    /\ list[i].key = None
                    /\ list[i].own.total_lines_owned = owners.team_tracking.no_team
              /\ ToplistOrderedWithFractions(list)

\* C9 witness: both toplists were taken from statistics with a total above
\* zero, two person entries apart in lines and a team ahead of the
\* unaffiliated row
C9_Witness ==
    /\ people_top # <<>>
    /\ teams_top # <<>>
    /\ stats[1].total_lines > 0
    /\ Len(people_top[1]) >= 2
    /\ people_top[1][1].own.total_lines_owned > people_top[1][2].own.total_lines_owned
    /\ Len(teams_top[1]) >= 3
    /\ teams_top[1][1].key # None
    /\ teams_top[1][1].own.total_lines_owned > teams_top[1][2].own.total_lines_owned

(***************************************************************************)
(* Claims about ownership::calculate, checked under SpecCalc               *)
(***************************************************************************)

\* The hunks of the non-binary files of tree t in traversal order: the
\* entries of a level in their stored order, a directory's before its next
\* sibling's
RECURSIVE HunksInOrder(_)
HunksInOrder(t) ==
    IF t = <<>> THEN <<>>
    ELSE (IF Head(t).kind = "Tree" THEN HunksInOrder(Head(t).tree)
          ELSE IF Head(t).binary THEN <<>> ELSE Head(t).hunks)
         \o HunksInOrder(Tail(t))

\* The alias a hunk is resolved by, and whether a Person of the registry has it
HunkAlias(h) == IF h.email = None THEN "" ELSE h.email
InRegistry(h) == \E i \in 1..Len(db.people) : HunkAlias(h) \in db.people[i].emails

\* The place in traversal order of the first hunk whose alias no Person of
\* the registry has; 0 when there is none
FirstUnknownHunk ==
    LET H == HunksInOrder(tree)
        unknown == { i \in 1..Len(H) : ~InRegistry(H[i]) }
    IN  IF unknown = {} THEN 0 ELSE CHOOSE i \in unknown : \A j \in unknown : i <= j

\* What holds in every state of a pass: the hunks tracked so far are the
\* first hunks of the traversal, none at or behind the first unknown one; a
\* pass over a tree with an unknown alias never returns statistics; a failed
\* pass returns UnknownEmail of the first unknown hunk's alias, has tracked
\* just the hunks before it and returns no statistics.
C10_AbortState ==
    LET H == HunksInOrder(tree)
        f == FirstUnknownHunk
    IN  /\ Len(processed) <= Len(H)
        /\ \A i \in 1..Len(processed) : processed[i].hunk = H[i]
        /\ f > 0 => Len(processed) < f /\ calc.pc # "done" /\ stats = <<>>
        /\ calc.pc = "done" => f = 0 /\ Len(processed) = Len(H)
        /\ calc.pc = "failed" =>
              /\ f > 0
              /\ calc.result = [kind |-> "UnknownEmail", email |-> HunkAlias(H[f])]
              /\ Len(processed) = f - 1
              /\ stats = <<>>

\* What a step of a pass does at the first unknown hunk and after a failure:
\* reaching that hunk the pass fails, and a failed pass does nothing more
C10_AbortStep ==
    /\ (/\ FirstUnknownHunk > 0
        /\ calc.pc = "blaming"
        /\ Len(processed) = FirstUnknownHunk - 1) => calc'.pc = "failed"
    /\ calc.pc = "failed" => UNCHANGED vars

\* C10: if some hunk's author alias is not in the registry, calculate aborts
\* at the first such hunk in traversal order with UnknownEmail(alias): the
\* hunk is not skipped, no later hunk or file is processed and no statistics
\* are returned, not even for the hunks already tracked.
C10_AbortsAtFirstUnknownAlias == []C10_AbortState /\ [][C10_AbortStep]_vars

\* C10 witness: a pass has failed after tracking hunks, with hunks and
\* entries of the tree still ahead
C10_Witness ==
    /\ calc.pc = "failed"
    /\ Len(processed) >= 1
    /\ Len(blame) >= 2
    /\ TreeWalkerNext(walker).item # <<>>
    /\ owners.people_tracking.lookup # EmptyMap

\* The sum of lines_in_hunk() over the hunks of the sequence H whose alias is
\* one of the set aliases
RECURSIVE LinesOfAliases(_, _)
LinesOfAliases(H, aliases) ==
    IF H = <<>> THEN 0
    ELSE (IF HunkAlias(Head(H)) \in aliases THEN Head(H).lines ELSE 0)
         + LinesOfAliases(Tail(H), aliases)

\* The aliases the registry resolves to the Person p: those of the Persons
\* equal to p, and Persons are equal when their names are
AliasesOf(p) ==
    UNION { db.people[i].emails : i \in { j \in 1..Len(db.people) : db.people[j].name = p.name } }

\* C11: when a pass of calculate completes, the line count of each Person is
\* the sum of lines_in_hunk() over all the hunks of the non-binary files whose
\* author alias the registry resolves to that Person, whatever author name
\* the hunk carries; a Person no hunk resolves to has no count; the total is
\* the sum over all these hunks, directories and binary files adding
\* nothing.  Over file1 (jane 10, john 5), file2 (jane 3) the total is 18,
\* Jane has 13 and John has 5.
C11_CountsAreSumsOfResolvedHunks ==
    calc.pc = "done" =>
        LET H == HunksInOrder(tree)
        IN  /\ \A i \in 1..Len(db.people) :
                  LET p == db.people[i]
                      n == LinesOfAliases(H, AliasesOf(p))
                  IN  person_value(owners.people_tracking, p) =
                          IF \E k \in 1..Len(H) : HunkAlias(H[k]) \in AliasesOf(p)
                          THEN Some(n) ELSE Nothing
            /\ stats = Some([total_lines |-> LinesOfAliases(H, { HunkAlias(H[k]) : k \in 1..Len(H) })])
            /\ (/\ tree = << Blob("file1", FALSE, << Hunk("Jane", "e1", 10), Hunk("John", "e2", 5) >>),
                             Blob("file2", FALSE, << Hunk("Jane", "e1", 3) >>) >>
                 /\ db.people = << Person("Jane", {"e1"}, None), Person("John", {"e2"}, "Team 1") >>)
                => /\ stats[1].total_lines = 18
                   /\ person_value(owners.people_tracking, db.people[1]) = Some(13)
                   /\ person_value(owners.people_tracking, db.people[2]) = Some(5)

\* C11 witness: a pass has completed over a tree with a binary file, having
\* tracked a hunk whose author name is that of another Person of the registry
\* than the one its alias resolves to
C11_Witness ==
    /\ calc.pc = "done"
    /\ \E k \in 1..Len(tree) : tree[k].kind = "Blob" /\ tree[k].binary
    /\ \E k \in 1..Len(processed) :
          /\ processed[k].hunk.name # db.people[processed[k].index + 1].name
          /\ \E i \in 1..Len(db.people) : db.people[i].name = processed[k].hunk.name

(***************************************************************************)
(* Claims about the TreeWalker, checked under SpecWalker                   *)
(***************************************************************************)

\* The entries of tree t below the directory of path `path` in pre-order: an
\* entry, then what its own tree holds, then its next sibling
RECURSIVE PreOrder(_, _)
PreOrder(t, path) ==
    IF t = <<>> THEN <<>>
    ELSE << [id   |-> Head(t),
             path |-> path \o <<Head(t).name>>,
             kind |-> IF Head(t).kind = "Tree" THEN "Directory" ELSE "File"] >>
         \o (IF Head(t).kind = "Tree"
             THEN PreOrder(Head(t).tree, path \o <<Head(t).name>>) ELSE <<>>)
         \o PreOrder(Tail(t), path)

\* C12: the entries successive next() calls return are the entries of the
\* tree in pre-order: so far a prefix of that order, at the end all of it,
\* each entry once, a directory before what it holds, siblings in the order
\* the tree stores them, each with the path made of the names of its
\* ancestors and its own.  Over root/{a.txt, dir/{b.txt, subdir/{c.txt}}}
\* the paths are a.txt, dir, dir/b.txt, dir/subdir, dir/subdir/c.txt.
C12_WalkIsPreOrder ==
    LET P == PreOrder(tree, <<>>)
    IN  /\ Len(yielded) <= Len(P)
        /\ yielded = SubSeq(P, 1, Len(yielded))
        /\ \A i, j \in 1..Len(yielded) : i # j => yielded[i].path # yielded[j].path
        /\ end_calls > 0 => yielded = P
        /\ (end_calls > 0 /\ Len(tree) = 2 /\ tree[1].name = "a.txt" /\ tree[2].name = "dir")
              => [i \in 1..Len(yielded) |-> yielded[i].path] =
                   << <<"a.txt">>, <<"dir">>, <<"dir", "b.txt">>, <<"dir", "subdir">>,
                      <<"dir", "subdir", "c.txt">> >>

\* C12 witness: the walk of root/{a.txt, dir/{b.txt, subdir/{c.txt}}} has
\* ended
C12_Witness ==
    /\ end_calls > 0
    /\ Len(yielded) = 5
    /\ yielded[1].path = <<"a.txt">>
    /\ yielded[5].path = <<"dir", "subdir", "c.txt">>

\* How many entries tree t holds, directories and what they hold counted
RECURSIVE CountEntries(_)
CountEntries(t) ==
    IF t = <<>> THEN 0
    ELSE 1 + (IF Head(t).kind = "Tree" THEN CountEntries(Head(t).tree) ELSE 0)
           + CountEntries(Tail(t))

\* What holds in every state of a walk: no more entries are returned than the
\* tree holds, so None comes after finitely many calls; with all of them
\* returned the next call returns None; a call has returned None exactly when
\* the frame stack is empty.
C13_EndState ==
    /\ Len(yielded) <= CountEntries(tree)
    /\ (end_calls = 0 /\ Len(yielded) = CountEntries(tree))
          => TreeWalkerNext(walker).item = Nothing
    /\ end_calls > 0 <=> walker.cursor_stack = <<>>
    /\ next_result.called => (next_result.item = Nothing <=> walker.cursor_stack = <<>>)

\* What a call does: it returns an entry or None, and after a None every call
\* returns None, returns no entry and leaves the walker as it is
C13_EndStep ==
    /\ Len(yielded') + end_calls' = Len(yielded) + end_calls + 1
    /\ end_calls > 0 =>
          /\ next_result'.item = Nothing
          /\ yielded' = yielded
          /\ walker' = walker

\* C13: over any finite tree, the empty root and directories nested deeply
\* that hold nothing included, next() returns None after finitely many calls
\* (one more than the tree has entries), exactly when the frame stack has
\* become empty, and every later next() returns None without an entry.
C13_WalkEndsAndStaysEnded == []C13_EndState /\ [][C13_EndStep]_vars

\* C13 witness: next() has returned None twice over a tree of directories
\* nested four deep that hold no file
C13_Witness ==
    /\ end_calls >= 2
    /\ Len(yielded) = 6
    /\ \A i \in 1..Len(yielded) : yielded[i].kind = "Directory"
    /\ \E i \in 1..Len(yielded) : Len(yielded[i].path) = 4

(***************************************************************************)
(* Claims about the ConfigurationBuilder, checked under SpecBuilder        *)
(***************************************************************************)

\* into_configuration has returned Ok, and the Configuration it returned
Finalized == output # Nothing /\ output[1].result = Ok
OutputPeople == output[1].config[1].people

\* The display names the records carry, and the aliases a set of records'
\* places carry
ObservedNames == { records[i].name : i \in 1..Len(records) } \ {None}
AliasesAt(I) == { records[i].email : i \in I } \ {None}

\* The Persons of the output named `name`, as places of the people list
PlacesNamed(name) == { k \in 1..Len(OutputPeople) : OutputPeople[k].name = name }

Usable == { i \in 1..Len(records) : records[i].name # None /\ records[i].email # None }
FirstOfAlias == { i \in Usable : \A j \in Usable : records[j].email = records[i].email => i <= j }

ExistingPeople == from_config[1].people

\* C15: an incremental build's output holds every Person of the existing
\* configuration exactly once, with the same display name, the same team and
\* all the aliases it had; and an alias the existing configuration knew is
\* with no Person of another name in the output.
C15_ExistingPersonsPreserved ==
    (from_config # Nothing /\ Finalized) =>
        /\ \A i \in 1..Len(ExistingPeople) :
              /\ Cardinality(PlacesNamed(ExistingPeople[i].name)) = 1
              /\ \A k \in PlacesNamed(ExistingPeople[i].name) :
                    /\ OutputPeople[k].team_name = ExistingPeople[i].team_name
                    /\ ExistingPeople[i].emails \subseteq OutputPeople[k].emails
        /\ \A i \in 1..Len(ExistingPeople), k \in 1..Len(OutputPeople) :
              ExistingPeople[i].emails \cap OutputPeople[k].emails # {}
                  => OutputPeople[k].name = ExistingPeople[i].name

\* The typed failure of a finalize without a commit
NoCommits == [kind |-> "NoCommits"]

\* C16: into_configuration fails with the typed failure NoCommits exactly
\* when no commit sha was ever established, neither by
\* set_latest_commit_sha nor taken over from an existing configuration;
\* otherwise it succeeds and the output carries the sha established last.
C16_NoCommitsIffNoCheckpoint ==
    output # Nothing =>
        /\ checkpoint = None => output[1].result = NoCommits
        /\ checkpoint # None =>
              /\ output[1].result = Ok
              /\ output[1].config[1].generated_at_sha = checkpoint
        /\ output[1].result = NoCommits => checkpoint = None

\* The pairs of names of which the first is before the second in byte order
NameBefore == { <<"Ann", "Jane">>, <<"Ann", "John">>, <<"Jane", "John">> }

\* C17: the people list of every Configuration into_configuration returns,
\* of a fresh build or of an incremental one, is in ascending order of
\* display name.
C17_OutputSortedByName ==
    Finalized =>
        \A i, j \in 1..Len(OutputPeople) :
            i < j => <<OutputPeople[i].name, OutputPeople[j].name>> \in NameBefore

\* C17 witness: an incremental build from a configuration that lists John
\* before Ann is finalized with three Persons
C17_Witness ==
    /\ Finalized
    /\ from_config # Nothing
    /\ Len(ExistingPeople) = 2
    /\ <<ExistingPeople[2].name, ExistingPeople[1].name>> \in NameBefore
    /\ Len(OutputPeople) = 3

\* The aliases of the records that carry an alias and no usable name
NamelessAliases ==
    { records[i].email : i \in { j \in 1..Len(records) : records[j].name = None } } \ {None}

\* C18: in a fresh build an alias that arrived without a usable name is
\* kept: it is with a named Person of the output, or else the output holds a
\* Person whose name is the alias text and whose aliases are that alias.
C18_NamelessAliasKept ==
    (from_config = Nothing /\ Finalized) =>
        \A e \in NamelessAliases :
            \/ \E k \in 1..Len(OutputPeople) :
                  e \in OutputPeople[k].emails /\ OutputPeople[k].name # e
            \/ \E k \in 1..Len(OutputPeople) :
                  OutputPeople[k].name = e /\ OutputPeople[k].emails = {e}

(***************************************************************************)
(* Claims about the toplists of an empty total and of equal counts,        *)
(* checked under SpecTracking                                              *)
(***************************************************************************)

\* The fraction of a toplist entry is a number: neither 0/0 nor x/0
FractionDefined(entry) == entry.own.fraction_owned.den # 0

\* C19: when total_lines() is 0, every entry of a toplist, the unaffiliated
\* row of the team toplist above all, carries a defined fraction and never
\* the outcome of 0/0.
C19_ZeroTotalFractionDefined ==
    (stats # Nothing /\ stats[1].total_lines = 0) =>
        /\ people_top # Nothing =>
              \A i \in 1..Len(people_top[1]) : FractionDefined(people_top[1][i])
        /\ teams_top # Nothing =>
              \A i \in 1..Len(teams_top[1]) : FractionDefined(teams_top[1][i])

\* C20: the order of the toplist entries, those of equal line counts
\* included, is the same for every accumulator that was handed the same
\* track_person calls, whatever order its maps iterate in.
C20_ToplistOrderDeterministic ==
    stats # Nothing =>
        /\ \A o1, o2 \in iter_orders(DOMAIN owners.people_tracking.lookup) :
              people_toplist(stats[1], owners, o1) = people_toplist(stats[1], owners, o2)
        /\ \A o1, o2 \in iter_orders(DOMAIN owners.team_tracking.lookup) :
              teams_toplist(stats[1], owners, o1) = teams_toplist(stats[1], owners, o2)

(***************************************************************************)
(* A claim about the call stack of next(), checked under SpecWalker        *)
(***************************************************************************)

\* C21: one next() call needs no more nested invocations of next() than a
\* constant that does not grow with the depth of the tree: the call itself
\* and, as over a tree without directories, one more that reports the end;
\* this also when the walker leaves several exhausted nested directories in
\* a row.
C21_NextNestingIndependentOfDepth ==
    next_result.called => next_result.invocations <= 2

(***************************************************************************)
(* Claims about the seen_emails check and about the registry of a built    *)
(* Configuration, checked under SpecBuilder                                *)
(***************************************************************************)

\* The builder before its first add_author call
FirstBuilder == IF from_config = Nothing THEN NewBuilder ELSE from_existing(from_config[1])

\* The builder that folds the first n records in without the seen_emails
\* check
RECURSIVE UncheckedBuilder(_)
UncheckedBuilder(n) ==
    IF n = 0 THEN FirstBuilder
    ELSE add_author_unguarded(UncheckedBuilder(n - 1), records[n])

\* What into_configuration returns for the builder without the check, given
\* the same commit sha
UncheckedOutputs ==
    into_configuration([UncheckedBuilder(Len(records)) EXCEPT
                            !.generated_at_sha = builder.generated_at_sha])

RepeatsAlias(i) ==
    \/ records[i].email \in FirstBuilder.seen_emails
    \/ \E j \in Usable : j < i /\ records[j].email = records[i].email

\* Record i repeats its alias with the name of the Person that holds it:
\* the Person the first builder has under that name, or the name of the
\* earlier records with that alias
RepeatsWithHolder(i) ==
    /\ records[i].email \in FirstBuilder.seen_emails =>
          /\ records[i].name \in DOMAIN FirstBuilder.people_by_name
          /\ records[i].email \in FirstBuilder.people_by_name[records[i].name].emails
    /\ \A j \in Usable : (j < i /\ records[j].email = records[i].email)
                             => records[j].name = records[i].name

ConflictFree(people) ==
    \A i, j \in 1..Len(people) : i # j => people[i].emails \cap people[j].emails = {}

\* C23: the Configuration into_configuration returns, for a builder made new
\* or made from an existing Configuration that gives no alias to two
\* Persons, gives no alias to two Persons after any add_author calls, also
\* when an alias came with several names: Configuration::people_db of it
\* returns Ok with every Person of it, never ConflictingEmail.
C23_OutputLoadsWithoutConflict ==
    (Finalized /\ (from_config # Nothing => ConflictFree(ExistingPeople))) =>
        /\ ConflictFree(OutputPeople)
        /\ \A out \in people_db(output[1].config[1]) :
              /\ out.result = Ok
              /\ out.db.people = OutputPeople

\* C23 witness: a build from an existing configuration without a conflict is
\* finalized with two Persons or more after a record brought an alias of the
\* existing configuration with another name, and another record a new alias
\* that a later record brought with another name
C23_Witness ==
    /\ Finalized
    /\ from_config # Nothing
    /\ ConflictFree(ExistingPeople)
    /\ Len(OutputPeople) >= 2
    /\ \E i \in Usable :
          /\ records[i].email \in FirstBuilder.seen_emails
          /\ \A n \in DOMAIN FirstBuilder.people_by_name :
                records[i].email \in FirstBuilder.people_by_name[n].emails
                    => n # records[i].name
    /\ \E i, j \in Usable : /\ i < j
                             /\ records[i].email = records[j].email
                             /\ records[i].name # records[j].name
                             /\ records[i].email \notin FirstBuilder.seen_emails

(***************************************************************************)
(* A claim about the team slots and the person slots, checked under        *)
(* SpecTracking                                                            *)
(***************************************************************************)

\* The sum of the slots of the named teams `keys`
RECURSIVE TeamEntriesSum(_)
TeamEntriesSum(keys) ==
    IF keys = {} THEN 0
    ELSE LET k == CHOOSE x \in keys : TRUE
         IN  owners.team_tracking.lookup[k] + TeamEntriesSum(keys \ {k})

\* The sum of total_lines_owned over the entries of a toplist
RECURSIVE ToplistLines(_)
ToplistLines(list) ==
    IF list = <<>> THEN 0
    ELSE Head(list).own.total_lines_owned + ToplistLines(Tail(list))

\* C24: after any track_person calls on a new CombinedTracking the slots of
\* the named teams and the unaffiliated slot add up to what the person slots
\* add up to, which is all the lines tracked; so the line counts of
\* teams_toplist() add up to total_lines() as those of people_toplist() do.
\* This holds with two tracked Persons of one name and different teams.
C24_TeamSlotsSumToPersonSlots ==
    /\ owners.team_tracking.no_team + TeamEntriesSum(DOMAIN owners.team_tracking.lookup)
           = PersonEntriesSum(DOMAIN owners.people_tracking.lookup)
    /\ owners.team_tracking.no_team + TeamEntriesSum(DOMAIN owners.team_tracking.lookup)
           = TrackedLines(TrackPersons)
    /\ teams_top # Nothing => ToplistLines(teams_top[1]) = stats[1].total_lines
    /\ people_top # Nothing => ToplistLines(people_top[1]) = stats[1].total_lines

\* C24 witness: both toplists are there after the two Persons named Jane, one
\* in no team and one in Team 2, and John of Team 1 were tracked
C24_Witness ==
    /\ teams_top # Nothing
    /\ people_top # Nothing
    /\ \A p \in SamePerson(Person("Jane", {"e1"}, None)) : tracked[p] > 0
    /\ Cardinality(SamePerson(Person("Jane", {"e1"}, None))) = 2
    /\ Len(teams_top[1]) = 3
    /\ Len(people_top[1]) = 2
    /\ owners.team_tracking.no_team > 0

====
